---- MODULE Spec2Model ----
(***************************************************************************)
(* The file-backed task queue of the Discord agent coordinator             *)
(* (coordinator/tasks/queue.py).                                           *)
(*                                                                         *)
(* Spec      one process; every TaskQueue operation is one atomic action.  *)
(* SpecConc  two processes; a mutating operation is a load step and a save *)
(*           step, and the steps of the two processes interleave.          *)
(* SpecFile  one process; TaskQueue is constructed, and tasks.json can be  *)
(*           deleted or damaged from outside between operations.           *)
(* SpecTorn  a writer and a reader; a save is a truncation and a write.    *)
(* SpecLaunch    the launch command and the registry lookups               *)
(*               (coordinator/discord/bot.py, registries/agent_registry.py)*)
(* SpecAnnounce  send_announcement (coordinator/discord/bot.py).           *)
(* SpecFifo  one process; the caller numbers the jobs it submits.          *)
(* SpecStatus    one process; update_task_status is called with keywords   *)
(*               and status arguments Python or the method rejects.        *)
(***************************************************************************)
EXTENDS Integers, Sequences, FiniteSets, TLC

VARIABLES
    file,   \* content of tasks.json: the sequence data['tasks']
    last,   \* Spec: the operation that ran last, its arguments and its result
    pc,     \* SpecConc: per process, where it is inside an operation
    data,   \* SpecConc: per process, the document it holds in memory
    req,    \* SpecConc: per process, the operation it runs or ran last
    got,    \* SpecConc: per process, what get_next_queued_task returned to it
    nops,   \* SpecConc: per process, the number of operations it has started
    disk,   \* what is at the path of tasks.json: "missing", "ok" (a JSON
            \* document, held by file), "malformed" or "partial"
    inst,   \* whether a TaskQueue instance has been constructed
    reply,  \* SpecLaunch: the message of the last command or failed lookup
    ann     \* SpecAnnounce: the tasks of one send_announcement call

vars == <<file, last, pc, data, req, got, nops, disk, inst, reply, ann>>

procvars == <<pc, data, req, got, nops>>

envvars == <<disk, inst, reply, ann>>

----------------------------------------------------------------------------
(* Bounds *)

\* the document holds at most MaxTasks tasks
MaxTasks == 2

\* SpecConc: each process starts at most MaxOps operations
MaxOps == 2

----------------------------------------------------------------------------
(* Values *)

\* Python's None, JSON's null
NULL == "<None>"

\* a value json cannot encode natively (a datetime object) and what
\* json.dump(..., default=str) writes for it
DT == "<datetime 2024-01-01>"
DTStr == "2024-01-01 00:00:00"

QUEUED == "queued"
IN_PROGRESS == "in_progress"
COMPLETED == "completed"
FAILED == "failed"
CANCELLED == "cancelled"

TaskStatus == {QUEUED, IN_PROGRESS, COMPLETED, FAILED, CANCELLED}

\* what f"task-{uuid.uuid4().hex[:8]}" can evaluate to: the draw is random,
\* nothing compares it with the ids already in the document
TaskIds == {"task-0000000a", "task-0000000b"}

\* what datetime.now().isoformat() can evaluate to (local wall clock), in
\* lexicographic = chronological order
Timestamps == <<"2024-01-01T00:00:01", "2024-01-01T00:00:02">>

Agents == {"coder"}
Models == {"claude-sonnet"}
Descriptions == {"fix bug #42"}
Users == {"alice"}

NoKw == [k \in {} |-> NULL]

\* the **kwargs of update_task_status: any keyword that is not one of its
\* named parameters (self, task_id, status)
ExtraFields ==
    {NoKw, [result |-> DT, created_at |-> NULL]}
        \cup {[id |-> i] : i \in TaskIds}

\* list_tasks: limit defaults to 10
DefaultLimit == 10
Limits == (0..MaxTasks) \cup {DefaultLimit}

\* the status filters list_tasks is called with (None: no filter)
Filters == {NULL, QUEUED}

Min(a, b) == IF a <= b THEN a ELSE b

\* no message has been sent
NoReply == [kind |-> "none", text |-> <<>>]

\* no send_announcement call is running
NoAnn ==
    [main |-> "idle", conn |-> "none", bot_task |-> "none",
     send_task |-> "none", success |-> FALSE, clock |-> 0, result |-> FALSE]

----------------------------------------------------------------------------
(* The document and its serialisation *)

\* json.dump(data, f, indent=2, default=str) of one value
JsonValue(v) == IF v = DT THEN DTStr ELSE v

JsonTask(t) == [k \in DOMAIN t |-> JsonValue(t[k])]

\* _save_queue: what the file holds after json.dump of the in-memory document
SaveQueue(tasks) == [i \in 1..Len(tasks) |-> JsonTask(tasks[i])]

\* _load_queue: json.load of the file
LoadQueue(f) == f

\* the task dict add_task builds
NewTask(task_id, agent_id, model, task_description, requested_by, now) ==
    [k \in {"id", "agent", "model", "task", "status", "requested_by",
            "created_at", "started_at", "completed_at", "result", "error"} |->
        CASE k = "id" -> task_id
          [] k = "agent" -> agent_id
          [] k = "model" -> model
          [] k = "task" -> task_description
          [] k = "status" -> QUEUED
          [] k = "requested_by" -> requested_by
          [] k = "created_at" -> now
          [] OTHER -> NULL]

\* a variant that inserts the new task at the head of the list
Prepended(tasks, task) == <<task>> \o tasks

\* data['tasks'].append(task)
Appended(tasks, task) == Append(tasks, task)

\* dict.update(kwargs)
DictUpdate(t, kwargs) ==
    [k \in DOMAIN t \cup DOMAIN kwargs |->
        IF k \in DOMAIN kwargs THEN kwargs[k] ELSE t[k]]

\* for task in data['tasks']: if task['id'] == task_id: ...  (0: no match)
RECURSIVE ScanId(_, _, _)
ScanId(tasks, task_id, i) ==
    IF i > Len(tasks) THEN 0
    ELSE IF tasks[i]["id"] = task_id THEN i
    ELSE ScanId(tasks, task_id, i + 1)

\* get_task: the first match as a one-element sequence, None as <<>>
FindTask(tasks, task_id) ==
    LET i == ScanId(tasks, task_id, 1)
    IN  IF i = 0 THEN <<>> ELSE <<tasks[i]>>

\* a variant that creates a record when no task matches (an upsert)
UpsertedTasks(tasks, task_id, status, kwargs) ==
    LET i == ScanId(tasks, task_id, 1)
    IN  IF i = 0
        THEN Append(tasks,
                DictUpdate([NewTask(task_id, NULL, NULL, NULL, NULL, NULL)
                                EXCEPT !["status"] = status], kwargs))
        ELSE [tasks EXCEPT
                ![i] = DictUpdate([@ EXCEPT !["status"] = status], kwargs)]

\* a variant that validates the transition: a task that has reached
\* completed, failed or cancelled is left as it is
UpdatedTasksGuarded(tasks, task_id, status, kwargs) ==
    LET i == ScanId(tasks, task_id, 1)
    IN  IF i = 0 \/ tasks[i]["status"] \in {COMPLETED, FAILED, CANCELLED}
        THEN tasks
        ELSE [tasks EXCEPT
                ![i] = DictUpdate([@ EXCEPT !["status"] = status], kwargs)]

\* update_task_status, lines 76-80: the in-memory document after the loop
UpdatedTasks(tasks, task_id, status, kwargs) ==
    LET i == ScanId(tasks, task_id, 1)
    IN  IF i = 0 THEN tasks
        ELSE [tasks EXCEPT
                ![i] = DictUpdate([@ EXCEPT !["status"] = status], kwargs)]

\* get_next_queued_task: the loop over data['tasks']
RECURSIVE ScanQueued(_, _)
ScanQueued(tasks, i) ==
    IF i > Len(tasks) THEN <<>>
    ELSE IF tasks[i]["status"] = QUEUED THEN <<tasks[i]>>
    ELSE ScanQueued(tasks, i + 1)

\* a variant that hands out the queued task nearest the end of the list
NextQueuedNewest(tasks) ==
    LET q == {i \in 1..Len(tasks) : tasks[i]["status"] = QUEUED}
    IN  IF q = {} THEN <<>>
        ELSE <<tasks[CHOOSE i \in q : \A j \in q : j <= i]>>

\* a variant that hands out the head of the list whatever its status
NextAny(tasks) == IF tasks = <<>> THEN <<>> ELSE <<tasks[1]>>

NextQueued(tasks) == ScanQueued(tasks, 1)

\* [t for t in tasks if t['status'] == status.value]
RECURSIVE FilterStatus(_, _)
FilterStatus(tasks, status) ==
    IF tasks = <<>> THEN <<>>
    ELSE IF Head(tasks)["status"] = status
         THEN <<Head(tasks)>> \o FilterStatus(Tail(tasks), status)
         ELSE FilterStatus(Tail(tasks), status)

\* the sort key t['created_at'] as a rank; str < str is lexicographic
TsRank(v) == CHOOSE r \in 1..Len(Timestamps) : Timestamps[r] = v

\* sort(key=..., reverse=True) is stable: equal keys keep their order
RECURSIVE InsertDesc(_, _)
InsertDesc(sorted, t) ==
    IF sorted = <<>> THEN <<t>>
    ELSE IF TsRank(Head(sorted)["created_at"]) >= TsRank(t["created_at"])
         THEN <<Head(sorted)>> \o InsertDesc(Tail(sorted), t)
         ELSE <<t>> \o sorted

RECURSIVE SortDesc(_)
SortDesc(tasks) ==
    IF tasks = <<>> THEN <<>>
    ELSE InsertDesc(SortDesc(SubSeq(tasks, 1, Len(tasks) - 1)),
                    tasks[Len(tasks)])

\* tasks.sort raises TypeError when it compares None with a str or with None:
\* any list of two or more elements that holds a None key
SortRaises(tasks) ==
    Len(tasks) >= 2 /\ \E i \in 1..Len(tasks) : tasks[i]["created_at"] = NULL

\* tasks[:limit], limit >= 0
Truncated(tasks, limit) == SubSeq(tasks, 1, Min(limit, Len(tasks)))

\* list_tasks, lines 96-98: status None (or omitted) means no filter
Selected(tasks, status) ==
    IF status # NULL THEN FilterStatus(tasks, status) ELSE tasks

\* a variant that cuts the list to limit entries before it sorts them
ListedCutFirst(tasks, status, limit) ==
    SortDesc(Truncated(Selected(tasks, status), limit))

\* list_tasks, lines 99-100, when the sort does not raise
Listed(tasks, status, limit) ==
    Truncated(SortDesc(Selected(tasks, status)), limit)

----------------------------------------------------------------------------
(* Spec: one process, whole operations *)

Op(op, task_id, status, args, limit, ret, ret_id, raised) ==
    [op |-> op, task_id |-> task_id, status |-> status, args |-> args,
     limit |-> limit, ret |-> ret, ret_id |-> ret_id, raised |-> raised]

NoOp == Op("none", NULL, NULL, NoKw, 0, <<>>, NULL, FALSE)

AddArgs(agent_id, model, task_description, requested_by) ==
    [agent |-> agent_id, model |-> model, task |-> task_description,
     requested_by |-> requested_by]

add_task(task_id, agent_id, model, task_description, requested_by, now) ==
    /\ Len(file) < MaxTasks
    /\ file' = SaveQueue(Appended(LoadQueue(file),
                 NewTask(task_id, agent_id, model, task_description,
                         requested_by, now)))
    /\ last' = Op("add_task", NULL, NULL,
                  AddArgs(agent_id, model, task_description, requested_by),
                  0, <<>>, task_id, FALSE)
    /\ UNCHANGED <<procvars, envvars>>

get_task(task_id) ==
    /\ last' = Op("get_task", task_id, NULL, NoKw, 0,
                  FindTask(LoadQueue(file), task_id), NULL, FALSE)
    /\ UNCHANGED <<file, procvars, envvars>>

update_task_status(task_id, status, kwargs) ==
    /\ file' = SaveQueue(UpdatedTasks(LoadQueue(file), task_id, status, kwargs))
    /\ last' = Op("update_task_status", task_id, status, kwargs, 0, <<>>,
                  NULL, FALSE)
    /\ UNCHANGED <<procvars, envvars>>

get_next_queued_task ==
    /\ last' = Op("get_next_queued_task", NULL, NULL, NoKw, 0,
                  NextQueued(LoadQueue(file)), NULL, FALSE)
    /\ UNCHANGED <<file, procvars, envvars>>

\* a variant that writes the list it sorted back to the file
list_tasks_saving(status, limit) ==
    /\ LET tasks == Selected(LoadQueue(file), status)
       IN  /\ last' = IF SortRaises(tasks)
                      THEN Op("list_tasks", NULL, status, NoKw, limit, <<>>,
                              NULL, TRUE)
                      ELSE Op("list_tasks", NULL, status, NoKw, limit,
                              Listed(LoadQueue(file), status, limit), NULL,
                              FALSE)
           /\ file' = IF SortRaises(tasks) \/ status # NULL THEN file
                      ELSE SaveQueue(SortDesc(tasks))
    /\ UNCHANGED <<procvars, envvars>>

list_tasks(status, limit) ==
    /\ LET tasks == Selected(LoadQueue(file), status)
       IN  last' = IF SortRaises(tasks)
                   THEN Op("list_tasks", NULL, status, NoKw, limit, <<>>,
                           NULL, TRUE)
                   ELSE Op("list_tasks", NULL, status, NoKw, limit,
                           Listed(LoadQueue(file), status, limit), NULL, FALSE)
    /\ UNCHANGED <<file, procvars, envvars>>

Procs == {1, 2}

Init ==
    /\ file = <<>>
    /\ last = NoOp
    /\ pc = [p \in Procs |-> "idle"]
    /\ data = [p \in Procs |-> <<>>]
    /\ req = [p \in Procs |-> NoOp]
    /\ got = [p \in Procs |-> <<>>]
    /\ nops = [p \in Procs |-> 0]
    /\ disk = "ok"
    /\ inst = TRUE
    /\ reply = NoReply
    /\ ann = NoAnn

Next ==
    \/ \E task_id \in TaskIds, agent_id \in Agents, model \in Models,
          task_description \in Descriptions, requested_by \in Users,
          r \in 1..Len(Timestamps) :
            add_task(task_id, agent_id, model, task_description, requested_by,
                     Timestamps[r])
    \/ \E task_id \in TaskIds : get_task(task_id)
    \/ \E task_id \in TaskIds, status \in TaskStatus,
          kwargs \in ExtraFields :
            update_task_status(task_id, status, kwargs)
    \/ get_next_queued_task
    \/ \E status \in Filters, limit \in Limits :
            list_tasks(status, limit)

Spec == Init /\ [][Next]_vars

----------------------------------------------------------------------------
(* SpecConc: two processes on the same tasks.json.  A mutating operation    *)
(* is two steps, the load (with the change made in memory) and the save;   *)
(* nothing locks the file between them.                                    *)

\* the statuses the processes write: a worker taking a task, then finishing it
ConcStatuses == {IN_PROGRESS, COMPLETED}

\* the documents the processes can start from: empty, or one queued task
ConcInitDocs ==
    {<<>>,
     SaveQueue(<<NewTask("task-0000000a", "coder", "claude-sonnet",
                         "fix bug #42", "alice", Timestamps[1])>>)}

Starts(p) ==
    /\ pc[p] = "idle"
    /\ nops[p] < MaxOps
    /\ nops' = [nops EXCEPT ![p] = @ + 1]

\* add_task, lines 43-58
add_task_load(p, task_id, agent_id, model, task_description, by, now) ==
    /\ Starts(p)
    /\ Len(file) < MaxTasks
    /\ data' = [data EXCEPT ![p] =
                    Appended(LoadQueue(file),
                             NewTask(task_id, agent_id, model,
                                     task_description, by, now))]
    /\ req' = [req EXCEPT ![p] =
                    Op("add_task", task_id, NULL,
                       AddArgs(agent_id, model, task_description, by),
                       0, <<>>, NULL, FALSE)]
    /\ pc' = [pc EXCEPT ![p] = "add_loaded"]
    /\ UNCHANGED <<file, last, got, envvars>>

\* a variant of the save that takes the file as it is now and appends to it
add_task_save_fresh(p) ==
    /\ pc[p] = "add_loaded"
    /\ file' = SaveQueue(Appended(LoadQueue(file), data[p][Len(data[p])]))
    /\ req' = [req EXCEPT ![p]["ret_id"] = req[p].task_id]
    /\ pc' = [pc EXCEPT ![p] = "idle"]
    /\ data' = [data EXCEPT ![p] = <<>>]
    /\ UNCHANGED <<last, got, nops, envvars>>

\* add_task, lines 59-60
add_task_save(p) ==
    /\ pc[p] = "add_loaded"
    /\ file' = SaveQueue(data[p])
    /\ req' = [req EXCEPT ![p]["ret_id"] = req[p].task_id]
    /\ pc' = [pc EXCEPT ![p] = "idle"]
    /\ data' = [data EXCEPT ![p] = <<>>]
    /\ UNCHANGED <<last, got, nops, envvars>>

\* update_task_status, lines 75-80
update_task_status_load(p, task_id, status, kwargs) ==
    /\ Starts(p)
    /\ data' = [data EXCEPT ![p] =
                    UpdatedTasks(LoadQueue(file), task_id, status, kwargs)]
    /\ req' = [req EXCEPT ![p] =
                    Op("update_task_status", task_id, status, kwargs, 0,
                       <<>>, NULL, FALSE)]
    /\ pc' = [pc EXCEPT ![p] = "update_loaded"]
    /\ UNCHANGED <<file, last, got, envvars>>

\* update_task_status, line 81
update_task_status_save(p) ==
    /\ pc[p] = "update_loaded"
    /\ file' = SaveQueue(data[p])
    /\ pc' = [pc EXCEPT ![p] = "idle"]
    /\ data' = [data EXCEPT ![p] = <<>>]
    /\ UNCHANGED <<last, req, got, nops, envvars>>

\* a variant that marks the task it hands out as in progress (a claim)
get_next_queued_task_claiming(p) ==
    /\ Starts(p)
    /\ got' = [got EXCEPT ![p] = NextQueued(LoadQueue(file))]
    /\ file' = IF got'[p] = <<>> THEN file
               ELSE SaveQueue(UpdatedTasks(LoadQueue(file), got'[p][1]["id"],
                                           IN_PROGRESS, NoKw))
    /\ req' = [req EXCEPT ![p] =
                    Op("get_next_queued_task", NULL, NULL, NoKw, 0,
                       got'[p], NULL, FALSE)]
    /\ UNCHANGED <<last, pc, data, envvars>>

\* get_next_queued_task as a worker calls it: one load, no save
get_next_queued_task_by(p) ==
    /\ Starts(p)
    /\ got' = [got EXCEPT ![p] = NextQueued(LoadQueue(file))]
    /\ req' = [req EXCEPT ![p] =
                    Op("get_next_queued_task", NULL, NULL, NoKw, 0,
                       got'[p], NULL, FALSE)]
    /\ UNCHANGED <<file, last, pc, data, envvars>>

InitConc ==
    /\ file \in ConcInitDocs
    /\ last = NoOp
    /\ pc = [p \in Procs |-> "idle"]
    /\ data = [p \in Procs |-> <<>>]
    /\ req = [p \in Procs |-> NoOp]
    /\ got = [p \in Procs |-> <<>>]
    /\ nops = [p \in Procs |-> 0]
    /\ disk = "ok"
    /\ inst = TRUE
    /\ reply = NoReply
    /\ ann = NoAnn

NextConc ==
    \/ \E p \in Procs, task_id \in TaskIds, agent_id \in Agents,
          model \in Models, task_description \in Descriptions,
          requested_by \in Users :
            add_task_load(p, task_id, agent_id, model, task_description,
                          requested_by, Timestamps[2])
    \/ \E p \in Procs : add_task_save(p)
    \/ \E p \in Procs : get_next_queued_task_by(p)
    \/ \E p \in Procs, task_id \in TaskIds, status \in ConcStatuses :
            update_task_status_load(p, task_id, status, NoKw)
    \/ \E p \in Procs : update_task_status_save(p)

SpecConc == InitConc /\ [][NextConc]_vars

----------------------------------------------------------------------------
(* SpecFile: the life of tasks.json.  The constructor creates the file     *)
(* when there is none; between two operations the file can be removed or   *)
(* damaged from outside.  Every operation starts with _load_queue.         *)

\* a variant of the constructor that writes the empty document every time
EnsuredFresh(d, f) == [disk |-> "ok", file |-> SaveQueue(<<>>)]

\* _ensure_queue_file: the path and its content after __init__
Ensured(d, f) ==
    IF d = "missing" THEN [disk |-> "ok", file |-> SaveQueue(<<>>)]
    ELSE [disk |-> d, file |-> f]

\* TaskQueue(): __init__ and _ensure_queue_file
TaskQueue_init ==
    /\ disk' = Ensured(disk, file).disk
    /\ file' = Ensured(disk, file).file
    /\ inst' = TRUE
    /\ last' = Op("TaskQueue", NULL, NULL, NoKw, 0, <<>>, NULL, FALSE)
    /\ UNCHANGED <<procvars, reply, ann>>

\* tasks.json is removed from outside
unlink ==
    /\ disk # "missing"
    /\ disk' = "missing"
    /\ file' = <<>>
    /\ last' = Op("unlink", NULL, NULL, NoKw, 0, <<>>, NULL, FALSE)
    /\ UNCHANGED <<procvars, inst, reply, ann>>

\* tasks.json is damaged from outside: its bytes are no JSON document any
\* more (file keeps the tasks whose text the damaged bytes hold)
corrupt ==
    /\ disk = "ok"
    /\ disk' = "malformed"
    /\ last' = Op("corrupt", NULL, NULL, NoKw, 0, <<>>, NULL, FALSE)
    /\ UNCHANGED <<file, procvars, inst, reply, ann>>

\* a variant of _load_queue that takes a missing file for the empty document
LoadRaisesIfDamaged == disk \in {"malformed", "partial"}

\* a variant of _load_queue that reads what it can of a damaged file
LoadRaisesIfMissing == disk = "missing"

\* _load_queue raises: open() FileNotFoundError when there is no file,
\* json.load JSONDecodeError when the content is no JSON document
LoadRaises == disk # "ok"

\* the error leaves the operation at its first statement that touches the
\* file: nothing has been written
Raises(op, task_id, status, args, limit) ==
    /\ last' = Op(op, task_id, status, args, limit, <<>>, NULL, TRUE)
    /\ UNCHANGED <<file, procvars, envvars>>

add_task_call(task_id, agent_id, model, task_description, by, now) ==
    /\ inst
    /\ IF LoadRaises
       THEN Raises("add_task", NULL, NULL,
                   AddArgs(agent_id, model, task_description, by), 0)
       ELSE add_task(task_id, agent_id, model, task_description, by, now)

get_task_call(task_id) ==
    /\ inst
    /\ IF LoadRaises THEN Raises("get_task", task_id, NULL, NoKw, 0)
       ELSE get_task(task_id)

update_task_status_call(task_id, status, kwargs) ==
    /\ inst
    /\ IF LoadRaises
       THEN Raises("update_task_status", task_id, status, kwargs, 0)
       ELSE update_task_status(task_id, status, kwargs)

get_next_queued_task_call ==
    /\ inst
    /\ IF LoadRaises THEN Raises("get_next_queued_task", NULL, NULL, NoKw, 0)
       ELSE get_next_queued_task

list_tasks_call(status, limit) ==
    /\ inst
    /\ IF LoadRaises THEN Raises("list_tasks", NULL, status, NoKw, limit)
       ELSE list_tasks(status, limit)

\* before the first TaskQueue() of a fresh checkout: no tasks.json
InitFile ==
    /\ file = <<>>
    /\ last = NoOp
    /\ pc = [p \in Procs |-> "idle"]
    /\ data = [p \in Procs |-> <<>>]
    /\ req = [p \in Procs |-> NoOp]
    /\ got = [p \in Procs |-> <<>>]
    /\ nops = [p \in Procs |-> 0]
    /\ disk = "missing"
    /\ inst = FALSE
    /\ reply = NoReply
    /\ ann = NoAnn

NextFile ==
    \/ TaskQueue_init
    \/ unlink
    \/ corrupt
    \/ \E task_id \in TaskIds, agent_id \in Agents, model \in Models,
          task_description \in Descriptions, requested_by \in Users :
            add_task_call(task_id, agent_id, model, task_description,
                          requested_by, Timestamps[1])
    \/ \E task_id \in TaskIds : get_task_call(task_id)
    \/ \E task_id \in TaskIds, status \in ConcStatuses :
            update_task_status_call(task_id, status, NoKw)
    \/ get_next_queued_task_call
    \/ list_tasks_call(NULL, DefaultLimit)

SpecFile == InitFile /\ [][NextFile]_vars

----------------------------------------------------------------------------
(* SpecTorn: _save_queue in two steps.  open(path, 'w') empties the file,  *)
(* json.dump and the close of the file write the document.  Process Writer *)
(* runs add_task, process Reader runs get_task and get_next_queued_task;   *)
(* saves of two processes that overlap are not part of this specification. *)

Writer == 1
Reader == 2

\* a variant of the save that prepares the document beside the file (to be
\* moved over it in one step): the file keeps its content meanwhile
save_beside(p) ==
    /\ pc[p] = "add_loaded"
    /\ pc' = [pc EXCEPT ![p] = "add_writing"]
    /\ UNCHANGED <<file, last, data, req, got, nops, envvars>>

\* _save_queue, line 33: open(self.queue_file, 'w') truncates the file
save_truncate(p) ==
    /\ pc[p] = "add_loaded"
    /\ pc' = [pc EXCEPT ![p] = "add_writing"]
    /\ file' = <<>>
    /\ disk' = "partial"
    /\ UNCHANGED <<last, data, req, got, nops, inst, reply, ann>>

\* _save_queue, line 34, and the end of the with block: the document is
\* written; add_task returns the id
save_write(p) ==
    /\ pc[p] = "add_writing"
    /\ file' = SaveQueue(data[p])
    /\ disk' = "ok"
    /\ req' = [req EXCEPT ![p]["ret_id"] = req[p].task_id]
    /\ pc' = [pc EXCEPT ![p] = "idle"]
    /\ data' = [data EXCEPT ![p] = <<>>]
    /\ UNCHANGED <<last, got, nops, inst, reply, ann>>

\* the load of process p raises: its operation ends there
RaisesIn(p, op, task_id) ==
    /\ req' = [req EXCEPT ![p] =
                    Op(op, task_id, NULL, NoKw, 0, <<>>, NULL, TRUE)]
    /\ UNCHANGED <<file, last, pc, data, got, envvars>>

get_task_by(p, task_id) ==
    /\ Starts(p)
    /\ IF LoadRaises THEN RaisesIn(p, "get_task", task_id)
       ELSE /\ got' = [got EXCEPT ![p] = FindTask(LoadQueue(file), task_id)]
            /\ req' = [req EXCEPT ![p] =
                            Op("get_task", task_id, NULL, NoKw, 0, got'[p],
                               NULL, FALSE)]
            /\ UNCHANGED <<file, last, pc, data, envvars>>

get_next_queued_task_torn(p) ==
    IF LoadRaises
    THEN Starts(p) /\ RaisesIn(p, "get_next_queued_task", NULL)
    ELSE get_next_queued_task_by(p)

NextTorn ==
    \/ \E task_id \in TaskIds, agent_id \in Agents, model \in Models,
          task_description \in Descriptions, requested_by \in Users :
            add_task_load(Writer, task_id, agent_id, model, task_description,
                          requested_by, Timestamps[2])
    \/ save_truncate(Writer)
    \/ save_write(Writer)
    \/ \E task_id \in TaskIds : get_task_by(Reader, task_id)
    \/ get_next_queued_task_torn(Reader)

SpecTorn == InitConc /\ [][NextTorn]_vars

----------------------------------------------------------------------------
(* SpecLaunch: the registry lookups and the launch command.  The registry  *)
(* files are static data: two agents and three models stand for them.  A   *)
(* message is the sequence of the pieces its f-string puts together; the   *)
(* bullet and the cross mark of the source are written * and X here.       *)

\* load_agents_registry(): the keys in file order, and the entries
AgentKeys == <<"coder", "reviewer">>

AgentsRegistry ==
    [k \in {"coder", "reviewer"} |->
        IF k = "coder"
        THEN [name |-> "Coder", supported_models |-> <<"claude-sonnet", "legacy">>]
        ELSE [name |-> "Reviewer", supported_models |-> <<"claude-sonnet">>]]

\* load_models_registry()
ModelKeys == <<"claude-sonnet", "claude-opus", "gpt-4o">>

ModelsRegistry ==
    [k \in {"claude-sonnet", "claude-opus", "gpt-4o"} |->
        [provider |-> IF k = "gpt-4o" THEN "openai" ELSE "anthropic"]]

\* what a user types into /launch: known and unknown ids
LaunchAgents == {"coder", "reviewer", "ghost"}
LaunchModels == {"claude-sonnet", "claude-opus", "legacy"}

Range(seq) == {seq[i] : i \in 1..Len(seq)}

\* sep.join(keys)
RECURSIVE Join(_, _)
Join(keys, sep) ==
    IF keys = <<>> THEN <<>>
    ELSE IF Len(keys) = 1 THEN <<keys[1]>>
    ELSE <<keys[1], sep>> \o Join(Tail(keys), sep)

\* a variant of the message that shows the first available id only
NotFoundFirstOnly(what, id, whats, keys) ==
    <<what, " '", id, "' not found\n\nAvailable ", whats, ":\n  * ">>
        \o Join(SubSeq(keys, 1, 1), "\n  * ")

\* f"Agent '{agent_id}' not found\n\nAvailable agents:\n  * {available}"
NotFound(what, id, whats, keys) ==
    <<what, " '", id, "' not found\n\nAvailable ", whats, ":\n  * ">>
        \o Join(keys, "\n  * ")

\* get_agent: the entry, or ValueError with its message
GetAgent(agent_id) ==
    IF agent_id \notin Range(AgentKeys)
    THEN [raised |-> TRUE, value |-> <<>>,
          message |-> NotFound("Agent", agent_id, "agents", AgentKeys)]
    ELSE [raised |-> FALSE, value |-> <<AgentsRegistry[agent_id]>>,
          message |-> <<>>]

\* get_model: the entry, or ValueError with its message
GetModel(model_id) ==
    IF model_id \notin Range(ModelKeys)
    THEN [raised |-> TRUE, value |-> <<>>,
          message |-> NotFound("Model", model_id, "models", ModelKeys)]
    ELSE [raised |-> FALSE, value |-> <<ModelsRegistry[model_id]>>,
          message |-> <<>>]

\* a variant that lets every registered model run on every agent
SupportedAlways(agent_config, model) == TRUE

\* model in agent_config['supported_models']
Supported(agent_config, model) ==
    model \in Range(agent_config.supported_models)

Lookup(op, id, r) ==
    /\ last' = Op(op, id, NULL, NoKw, 0, r.value, NULL, r.raised)
    /\ reply' = IF r.raised THEN [kind |-> "ValueError", text |-> r.message]
                ELSE NoReply
    /\ UNCHANGED <<file, procvars, disk, inst, ann>>

get_agent(agent_id) == Lookup("get_agent", agent_id, GetAgent(agent_id))

get_model(model_id) == Lookup("get_model", model_id, GetModel(model_id))

\* cmd_launch returns after interaction.response.send_message(text)
Refused(agent, model, task, user, text) ==
    /\ reply' = [kind |-> "message", text |-> text]
    /\ last' = Op("cmd_launch", NULL, NULL, AddArgs(agent, model, task, user),
                  0, <<>>, NULL, FALSE)
    /\ UNCHANGED <<file, procvars, disk, inst, ann>>

\* cmd_launch, lines 105-118: TaskQueue(), add_task, the embed
Queued(agent, model, task, user, task_id, now) ==
    LET e == Ensured(disk, file)
    IN  /\ inst' = TRUE
        /\ disk' = e.disk
        /\ IF e.disk # "ok"
           THEN /\ file' = e.file
                /\ reply' = NoReply
                /\ last' = Op("cmd_launch", NULL, NULL,
                              AddArgs(agent, model, task, user), 0, <<>>,
                              NULL, TRUE)
           ELSE /\ Len(e.file) < MaxTasks
                /\ file' = SaveQueue(Appended(LoadQueue(e.file),
                                NewTask(task_id, agent, model, task, user, now)))
                /\ reply' = [kind |-> "embed",
                             text |-> <<"Task Queued", task_id,
                                        AgentsRegistry[agent].name, model,
                                        task>>]
                /\ last' = Op("cmd_launch", NULL, NULL,
                              AddArgs(agent, model, task, user), 0, <<>>,
                              task_id, FALSE)
        /\ UNCHANGED <<procvars, ann>>

cmd_launch(agent, model, task, user, task_id, now) ==
    LET a == GetAgent(agent)
        m == GetModel(model)
    IN  IF a.raised
        THEN Refused(agent, model, task, user, <<"X ">> \o a.message)
        ELSE IF m.raised
        THEN Refused(agent, model, task, user, <<"X ">> \o m.message)
        ELSE IF ~Supported(a.value[1], model)
        THEN Refused(agent, model, task, user,
                     <<"X Model '", model, "' not supported by agent '",
                       agent, "'\nSupported: ">>
                        \o Join(a.value[1].supported_models, ", "))
        ELSE Queued(agent, model, task, user, task_id, now)

NextLaunch ==
    \/ \E agent_id \in LaunchAgents : get_agent(agent_id)
    \/ \E model_id \in LaunchModels : get_model(model_id)
    \/ \E agent \in LaunchAgents, model \in LaunchModels,
          task \in Descriptions, user \in Users, task_id \in TaskIds :
            cmd_launch(agent, model, task, user, task_id, Timestamps[1])
    \/ unlink
    \/ corrupt

SpecLaunch == InitFile /\ [][NextLaunch]_vars

----------------------------------------------------------------------------
(* SpecAnnounce: one send_announcement call after the other.  bot_task     *)
(* runs send_and_close (bot.start), send_task runs wait_and_send, the      *)
(* caller waits for send_task for AnnounceTimeout seconds.  bot.start      *)
(* connects, raises, or does neither (it hangs); bot.send_message returns  *)
(* True or False, or hangs.                                                *)

\* asyncio.wait_for(send_task, timeout=10.0)
AnnounceTimeout == 10

annrest == <<file, last, procvars, disk, inst, reply>>

\* lines 248-268: the bot is built, both tasks are created
send_announcement ==
    /\ ann.main \in {"idle", "returned", "raised"}
    /\ ann' = [main |-> "wait_for", conn |-> "connecting",
               bot_task |-> "running", send_task |-> "wait_ready",
               success |-> FALSE, clock |-> 0, result |-> FALSE]
    /\ UNCHANGED annrest

\* bot.start logs in and connects: the client becomes ready
bot_start_connects ==
    /\ ann.bot_task = "running"
    /\ ann.conn = "connecting"
    /\ ann' = [ann EXCEPT !.conn = "ready"]
    /\ UNCHANGED annrest

\* bot.start raises (a rejected token: LoginFailure); send_and_close, lines
\* 252-255, catches CancelledError only: the error is the result of bot_task
bot_start_raises ==
    /\ ann.bot_task = "running"
    /\ ann.conn = "connecting"
    /\ ann' = [ann EXCEPT !.conn = "failed", !.bot_task = "raised"]
    /\ UNCHANGED annrest

\* line 259: wait_until_ready returns once the client is ready
wait_until_ready_returns ==
    /\ ann.send_task = "wait_ready"
    /\ ann.conn = "ready"
    /\ ann' = [ann EXCEPT !.send_task = "sending"]
    /\ UNCHANGED annrest

\* line 260: bot.send_message (lines 224-234) returns True, or False on a
\* channel without send and on any exception
send_message_returns(ok) ==
    /\ ann.send_task = "sending"
    /\ ann' = [ann EXCEPT !.send_task = "closing", !.success = ok]
    /\ UNCHANGED annrest

\* lines 261-262: bot.close(), then wait_and_send returns success
bot_close ==
    /\ ann.send_task = "closing"
    /\ ann' = [ann EXCEPT !.send_task = "done", !.conn = "closed"]
    /\ UNCHANGED annrest

\* bot.start returns when the client has been closed
bot_start_returns ==
    /\ ann.bot_task = "running"
    /\ ann.conn = "closed"
    /\ ann' = [ann EXCEPT !.bot_task = "returned"]
    /\ UNCHANGED annrest

\* one second passes while the caller waits
tick ==
    /\ ann.main = "wait_for"
    /\ ann.clock < AnnounceTimeout
    /\ ann' = [ann EXCEPT !.clock = @ + 1]
    /\ UNCHANGED annrest

\* lines 270-271: send_task is done, its result is the pending return value
wait_for_returns ==
    /\ ann.main = "wait_for"
    /\ ann.send_task = "done"
    /\ ann' = [ann EXCEPT !.main = "finally", !.result = ann.success]
    /\ UNCHANGED annrest

\* lines 272-273: the timeout fires, wait_for cancels send_task and raises
\* TimeoutError; the pending return value is False
wait_for_times_out ==
    /\ ann.main = "wait_for"
    /\ ann.clock = AnnounceTimeout
    /\ ann.send_task # "done"
    /\ ann' = [ann EXCEPT !.main = "finally", !.send_task = "cancelled",
                          !.result = FALSE]
    /\ UNCHANGED annrest

\* lines 274-279: bot_task.cancel(), await bot_task.  A running bot_task is
\* cancelled and send_and_close swallows the CancelledError; a bot_task that
\* ended with an error hands that error to the awaiting caller, and only
\* CancelledError is caught there
finally_await_bot_task ==
    /\ ann.main = "finally"
    /\ ann' = CASE ann.bot_task = "raised" -> [ann EXCEPT !.main = "raised"]
                [] ann.bot_task = "returned" -> [ann EXCEPT !.main = "returned"]
                [] OTHER -> [ann EXCEPT !.main = "returned",
                                        !.bot_task = "returned",
                                        !.conn = "closed"]
    /\ UNCHANGED annrest

NextAnnounce ==
    \/ send_announcement
    \/ bot_start_connects
    \/ bot_start_raises
    \/ wait_until_ready_returns
    \/ \E ok \in BOOLEAN : send_message_returns(ok)
    \/ bot_close
    \/ bot_start_returns
    \/ tick
    \/ wait_for_returns
    \/ wait_for_times_out
    \/ finally_await_bot_task

SpecAnnounce == Init /\ [][NextAnnounce]_vars

----------------------------------------------------------------------------
(* SpecFifo: one process submits jobs and works on them.  The description  *)
(* of the n-th add_task call is the n-th job, so that a task shows which   *)
(* call added it whatever happens to its id.                               *)

\* the task descriptions of the first, second, ... add_task call
Jobs == <<"job 1", "job 2", "job 3">>

\* the statuses a worker sets while a job is retried: taken, and put back
FifoStatuses == {QUEUED, IN_PROGRESS}

NextFifo ==
    \/ \E task_id \in TaskIds, agent_id \in Agents, model \in Models,
          requested_by \in Users :
            add_task(task_id, agent_id, model, Jobs[Len(file) + 1],
                     requested_by, Timestamps[1])
    \/ \E task_id \in TaskIds, status \in FifoStatuses,
          kwargs \in ExtraFields :
            update_task_status(task_id, status, kwargs)
    \/ get_next_queued_task

SpecFifo == Init /\ [][NextFifo]_vars

----------------------------------------------------------------------------
(* SpecStatus: add_task and update_task_status, the latter also with a     *)
(* keyword that names one of its parameters and with a status argument     *)
(* that is no TaskStatus member.                                           *)

\* a str passed where a TaskStatus member is expected
NotAMember == "bogus"

StatusArgs == TaskStatus \cup {NotAMember}

\* the keywords the calls carry
StatusKw ==
    {NoKw, [status |-> NotAMember], [task_id |-> "task-0000000b"]}

\* a variant in which a keyword named like a parameter reaches **kwargs
KwClashIgnored(kwargs) == FALSE

\* def update_task_status(self, task_id, status, **kwargs): a keyword named
\* like a parameter that is already bound makes the call raise TypeError
KwClash(kwargs) == DOMAIN kwargs \cap {"self", "task_id", "status"} # {}

\* line 78 evaluates status.value for the task that matches: a str has no
\* such attribute and the loop raises AttributeError before line 81
ValueRaises(tasks, task_id, status) ==
    status \notin TaskStatus /\ ScanId(tasks, task_id, 1) # 0

update_task_status_kw(task_id, status, kwargs) ==
    IF KwClash(kwargs) \/ ValueRaises(LoadQueue(file), task_id, status)
    THEN Raises("update_task_status", task_id, status, kwargs, 0)
    ELSE update_task_status(task_id, status, kwargs)

NextStatus ==
    \/ \E task_id \in TaskIds, agent_id \in Agents, model \in Models,
          task_description \in Descriptions, requested_by \in Users :
            add_task(task_id, agent_id, model, task_description, requested_by,
                     Timestamps[1])
    \/ \E task_id \in TaskIds, status \in StatusArgs, kwargs \in StatusKw :
            update_task_status_kw(task_id, status, kwargs)

SpecStatus == Init /\ [][NextStatus]_vars

----------------------------------------------------------------------------
(* Properties of Spec *)

Ids(tasks) == {tasks[i]["id"] : i \in 1..Len(tasks)}

\* the position of the first task with this id (the one get_task and
\* update_task_status act on); 0 when there is none
FirstWithId(tasks, task_id) ==
    IF task_id \in Ids(tasks)
    THEN CHOOSE i \in 1..Len(tasks) :
            /\ tasks[i]["id"] = task_id
            /\ \A j \in 1..(i - 1) : tasks[j]["id"] # task_id
    ELSE 0

\* C1: get_task(t) called right after add_task returned t gives a record
\* whose agent, model, task and requested_by are the arguments, whose status
\* is queued, whose created_at is set and whose started_at, completed_at,
\* result and error are null.
C1_GetAfterAdd ==
    last.op = "add_task" =>
        LET r == FindTask(LoadQueue(file), last.ret_id)
        IN  /\ Len(r) = 1
            /\ r[1]["agent"] = last.args["agent"]
            /\ r[1]["model"] = last.args["model"]
            /\ r[1]["task"] = last.args["task"]
            /\ r[1]["requested_by"] = last.args["requested_by"]
            /\ r[1]["status"] = QUEUED
            /\ r[1]["created_at"] # NULL
            /\ r[1]["started_at"] = NULL
            /\ r[1]["completed_at"] = NULL
            /\ r[1]["result"] = NULL
            /\ r[1]["error"] = NULL

\* C2: update_task_status(id, s, **extra) on an id of the document, followed
\* by get_task(id), yields status s and every extra field with the given
\* value; the fields of that task the call does not name and every other
\* task are unchanged.
C2_UpdateThenGet ==
    [][(last'.op = "update_task_status" /\ last'.task_id \in Ids(file)) =>
        LET i == FirstWithId(file, last'.task_id)
            before == file[i]
            r == FindTask(LoadQueue(file'), last'.task_id)
        IN  /\ Len(r) = 1
            /\ r[1]["status"] = last'.status
            /\ \A k \in DOMAIN last'.args : r[1][k] = last'.args[k]
            /\ \A k \in DOMAIN before \ (DOMAIN last'.args \cup {"status"}) :
                    r[1][k] = before[k]
            /\ Len(file') = Len(file)
            /\ \A j \in 1..Len(file) : j # i => file'[j] = file[j]]_vars

\* C3: update_task_status with an id that matches no task returns normally
\* and leaves the document unchanged, whatever the status and extra fields.
C3_UpdateUnknownId ==
    [][(last'.op = "update_task_status" /\ last'.task_id \notin Ids(file)) =>
        (file' = file /\ ~last'.raised)]_vars

\* C3 witness: an update carrying extra fields ran on a non-empty document
\* that holds no task with its id.
C3_Witness ==
    /\ last.op = "update_task_status"
    /\ last.args = [result |-> DT, created_at |-> NULL]
    /\ Len(file) >= 1
    /\ last.task_id \notin Ids(file)

\* C4: get_next_queued_task returns the queued task that comes first in
\* document order, and None exactly when no task of the document is queued.
C4_NextQueuedIsFirst ==
    last.op = "get_next_queued_task" =>
        /\ (last.ret = <<>>) <=>
                (\A i \in 1..Len(file) : file[i]["status"] # QUEUED)
        /\ last.ret # <<>> =>
                \E i \in 1..Len(file) :
                    /\ last.ret = <<file[i]>>
                    /\ file[i]["status"] = QUEUED
                    /\ \A j \in 1..(i - 1) : file[j]["status"] # QUEUED

\* C4 witness: the call skipped a task that is not queued and returned the
\* queued task behind it.
C4_Witness ==
    /\ last.op = "get_next_queued_task"
    /\ Len(file) = 2
    /\ file[1]["status"] = COMPLETED
    /\ last.ret = <<file[2]>>

\* C7: no two tasks of the document have the same id.
C7_UniqueIds ==
    \A i, j \in 1..Len(file) : file[i]["id"] = file[j]["id"] => i = j

\* C8: every task keeps the id it was created with.
C8_IdImmutable ==
    [][\A i \in 1..Len(file) :
            i <= Len(file') /\ file'[i]["id"] = file[i]["id"]]_vars

\* C9: tasks are never deleted: the document grows by one task on add_task
\* and by none on any other operation, every task stays at its position, and
\* only the task update_task_status matched changes, in the fields the call
\* names.
C9_NeverDeleted ==
    [][/\ Len(file') =
            Len(file) + (IF last'.op = "add_task" THEN 1 ELSE 0)
       /\ \A i \in 1..Len(file) :
            \/ file'[i] = file[i]
            \/ /\ last'.op = "update_task_status"
               /\ i = FirstWithId(file, last'.task_id)
               /\ \A k \in DOMAIN file[i] \ (DOMAIN last'.args \cup {"status"}) :
                    k \in DOMAIN file'[i] /\ file'[i][k] = file[i][k]]_vars

\* C9 witness: a full document whose first task was added, then joined by a
\* second one, then updated.
C9_Witness ==
    /\ Len(file) = MaxTasks
    /\ last.op = "update_task_status"
    /\ last.task_id = file[1]["id"]
    /\ file[1]["status"] = FAILED

\* C10: list_tasks(f, n) returns min(n, m) entries, m the number of tasks
\* with status f (of all tasks without a filter), all of status f.
C10_ListCount ==
    last.op = "list_tasks" =>
        LET m == IF last.status = NULL THEN Len(file)
                 ELSE Cardinality({i \in 1..Len(file) :
                                        file[i]["status"] = last.status})
        IN  /\ ~last.raised
            /\ Len(last.ret) = Min(last.limit, m)
            /\ last.status # NULL =>
                    \A i \in 1..Len(last.ret) :
                        last.ret[i]["status"] = last.status

\* the positions of the tasks list_tasks' filter keeps
Matching(tasks, status) ==
    {i \in 1..Len(tasks) : status = NULL \/ tasks[i]["status"] = status}

\* the sort key of a task; a None key occurs only in a list of one task,
\* where nothing is compared
KeyRank(v) == IF v = NULL THEN 0 ELSE TsRank(v)

\* C11: list_tasks sorts before it truncates: what it returns is ordered by
\* created_at, newest first, every returned entry is a task the filter keeps,
\* and every such task that is newer than a returned one is returned too.
C11_SortThenTruncate ==
    (last.op = "list_tasks" /\ ~last.raised) =>
        LET ret == last.ret
            m == Matching(file, last.status)
        IN  /\ \A i, j \in 1..Len(ret) :
                    i < j => KeyRank(ret[i]["created_at"]) >=
                                KeyRank(ret[j]["created_at"])
            /\ \A j \in 1..Len(ret) : \E i \in m : file[i] = ret[j]
            /\ \A j \in 1..Len(ret) :
                    LET low == KeyRank(ret[j]["created_at"])
                    IN  Cardinality({i \in m :
                                KeyRank(file[i]["created_at"]) > low}) =
                        Cardinality({k \in 1..Len(ret) :
                                KeyRank(ret[k]["created_at"]) > low})

\* C11 witness: list_tasks with limit 1 ran on a document whose older task
\* comes first, and returned the newer, second task.
C11_Witness ==
    /\ last.op = "list_tasks"
    /\ last.limit = 1
    /\ Len(file) = 2
    /\ file[1]["created_at"] = Timestamps[1]
    /\ file[2]["created_at"] = Timestamps[2]
    /\ last.ret = <<file[2]>>

\* C12: get_task, get_next_queued_task and list_tasks leave the persisted
\* document as it is: no field changes, no task moves, whatever the input.
C12_ReadsDoNotWrite ==
    [][last'.op \in {"get_task", "get_next_queued_task", "list_tasks"} =>
        file' = file]_vars

\* C12 witness: list_tasks returned two tasks in the reverse of the order
\* they have in the document.
C12_Witness ==
    /\ last.op = "list_tasks"
    /\ Len(file) = 2
    /\ file[1] # file[2]
    /\ last.ret = <<file[2], file[1]>>

\* C14: status transitions are not validated: update_task_status(id, s2) on
\* a task of the document returns normally and leaves that task with status
\* s2, whatever status s1 it had (s2 = s1 and backward moves included).
C14_AnyTransition ==
    [][(last'.op = "update_task_status" /\ last'.task_id \in Ids(file)) =>
        /\ ~last'.raised
        /\ file'[FirstWithId(file, last'.task_id)]["status"] = last'.status]_vars

\* C14 witness: a task that an earlier update had touched (its result is
\* set) has been put back to queued, behind a task that is completed.
C14_Witness ==
    /\ last.op = "update_task_status"
    /\ last.status = QUEUED
    /\ last.args = NoKw
    /\ Len(file) = 2
    /\ file[1]["status"] = COMPLETED
    /\ file[2]["id"] = last.task_id
    /\ file[2]["id"] # file[1]["id"]
    /\ file[2]["result"] = DTStr
    /\ file[2]["status"] = QUEUED

----------------------------------------------------------------------------
(* Properties of SpecFile *)

QueueOps ==
    {"add_task", "get_task", "update_task_status", "get_next_queued_task",
     "list_tasks"}

\* C13: constructing a TaskQueue writes the empty document when there is no
\* file and leaves an existing file as it is; add_task appends exactly the
\* record it built behind the tasks already stored; so a fresh instance
\* reads the tasks written before it, in their order, field by field.
C13_ConstructIdempotent ==
    [][/\ last'.op = "TaskQueue" =>
            /\ disk = "missing" => (disk' = "ok" /\ file' = <<>>)
            /\ disk # "missing" =>
                    (disk' = disk /\ LoadQueue(file') = LoadQueue(file))
       /\ (last'.op = "add_task" /\ ~last'.raised) =>
            /\ Len(file') = Len(file) + 1
            /\ SubSeq(file', 1, Len(file)) = file
            /\ LET t == file'[Len(file')]
               IN  /\ t["id"] = last'.ret_id
                   /\ t["agent"] = last'.args["agent"]
                   /\ t["model"] = last'.args["model"]
                   /\ t["task"] = last'.args["task"]
                   /\ t["requested_by"] = last'.args["requested_by"]
                   /\ t["status"] = QUEUED]_vars

\* C13 witness: a TaskQueue was constructed on a file that holds two tasks.
C13_Witness ==
    /\ last.op = "TaskQueue"
    /\ disk = "ok"
    /\ Len(file) = 2

\* C15: once the file is gone, every operation on an instance fails and
\* leaves the file missing; only constructing a TaskQueue brings it back.
C15_MissingFileNotRecreated ==
    [][/\ (disk = "missing" /\ last'.op \in QueueOps) =>
            (last'.raised /\ disk' = "missing" /\ file' = file)
       /\ (disk = "missing" /\ disk' # "missing") =>
            last'.op = "TaskQueue"]_vars

\* C15 witness: add_task failed on an instance whose file was removed.
C15_Witness ==
    /\ inst
    /\ disk = "missing"
    /\ last.op = "add_task"
    /\ last.raised

\* C16: while the file holds malformed JSON every operation fails with the
\* error, and neither an operation nor a new TaskQueue changes the content.
C16_MalformedFileKept ==
    [][(disk = "malformed" /\ last'.op \in QueueOps \cup {"TaskQueue"}) =>
        /\ disk' = "malformed"
        /\ file' = file
        /\ last'.op \in QueueOps => last'.raised]_vars

\* C16 witness: update_task_status failed on a malformed file that held a
\* task before it was damaged.
C16_Witness ==
    /\ disk = "malformed"
    /\ Len(file) >= 1
    /\ last.op = "update_task_status"
    /\ last.raised

----------------------------------------------------------------------------
(* Properties of SpecConc *)

\* C5: get_next_queued_task hands out the first queued task and leaves the
\* document as it is, so that two workers can each receive the same task and
\* each set it to in_progress.
C5_GetNextDoesNotClaim ==
    [][\A p \in Procs :
        (nops'[p] # nops[p] /\ req'[p].op = "get_next_queued_task") =>
            /\ file' = file
            /\ got'[p] = req'[p].ret
            /\ \A i \in 1..Len(file) :
                    file[i]["status"] = QUEUED => got'[p] # <<>>
            /\ got'[p] # <<>> =>
                    \E i \in 1..Len(file) :
                        got'[p] = <<file[i]>> /\ file[i]["status"] = QUEUED]_vars

\* C5 witness: both workers received the same queued task and both have set
\* it to in_progress.
C5_Witness ==
    /\ got[1] # <<>>
    /\ got[1] = got[2]
    /\ got[1][1]["status"] = QUEUED
    /\ \A p \in Procs :
            /\ pc[p] = "idle"
            /\ req[p].op = "update_task_status"
            /\ req[p].task_id = got[p][1]["id"]
            /\ req[p].status = IN_PROGRESS
    /\ Len(file) = 1

\* C6: a save replaces the whole document by the writer's own copy, taken
\* at its load, and reports nothing: what another process saved since that
\* load is gone.
C6_LastWriteWins ==
    [][\A p \in Procs :
        (pc[p] # "idle" /\ pc'[p] = "idle") =>
            /\ file' = SaveQueue(data[p])
            /\ ~req'[p].raised]_vars

\* C6 witness: both processes ran add_task, each got its id back, and the
\* task of process 1 is not in the document.
C6_Witness ==
    /\ \A p \in Procs :
            pc[p] = "idle" /\ req[p].op = "add_task" /\ ~req[p].raised
    /\ req[1].ret_id # NULL
    /\ req[2].ret_id # NULL
    /\ req[1].ret_id # req[2].ret_id
    /\ req[1].ret_id \notin Ids(file)
    /\ req[2].ret_id \in Ids(file)

----------------------------------------------------------------------------
(* Properties of SpecTorn *)

\* C20: a save is not atomic.  From the truncation to the end of the write
\* the file holds no complete document, and at no other time; an operation
\* of the other process that loads in between fails with the parse error
\* and changes nothing, and an operation that loads a complete document
\* does not fail.
C20_TornSave ==
    [][/\ disk' \in {"ok", "partial"}
       /\ (disk' = "partial") <=> (\E p \in Procs : pc'[p] = "add_writing")
       /\ \A p \in Procs :
            nops'[p] # nops[p] =>
                /\ req'[p].raised <=> (disk = "partial")
                /\ file' = file
                /\ disk' = disk]_vars

\* C20 witness: get_task of the reader failed during a save of the writer,
\* whose add_task then returned its id; the file now holds a document.
C20_Witness ==
    /\ req[Reader].op = "get_task"
    /\ req[Reader].raised
    /\ pc[Writer] = "idle"
    /\ req[Writer].op = "add_task"
    /\ req[Writer].ret_id \in Ids(file)
    /\ disk = "ok"

----------------------------------------------------------------------------
(* Properties of SpecLaunch *)

\* the three checks of the launch command, read off the registries
LaunchAllowed(agent, model) ==
    /\ \E i \in 1..Len(AgentKeys) : AgentKeys[i] = agent
    /\ \E i \in 1..Len(ModelKeys) : ModelKeys[i] = model
    /\ \E i \in 1..Len(AgentsRegistry[agent].supported_models) :
            AgentsRegistry[agent].supported_models[i] = model

\* C17: the launch command adds a task only when the agent is registered,
\* the model is registered and the agent supports the model; otherwise it
\* sends an error message and returns: the document is unchanged, no
\* TaskQueue is constructed, no file is created.
C17_LaunchChecksFirst ==
    [][last'.op = "cmd_launch" =>
        LET ok == LaunchAllowed(last'.args["agent"], last'.args["model"])
        IN  /\ ~ok =>
                /\ file' = file
                /\ disk' = disk
                /\ inst' = inst
                /\ reply'.kind = "message"
                /\ ~last'.raised
                /\ last'.ret_id = NULL
            /\ (last'.ret_id # NULL \/ file' # file \/ disk' # disk) => ok
            /\ last'.ret_id # NULL =>
                /\ Len(file') = Len(file) + 1
                /\ file'[Len(file')]["id"] = last'.ret_id
                /\ file'[Len(file')]["agent"] = last'.args["agent"]
                /\ file'[Len(file')]["model"] = last'.args["model"]]_vars

\* C17 witness: a launch of a registered agent with a registered model the
\* agent does not support was refused before any tasks.json existed.
C17_Witness ==
    /\ last.op = "cmd_launch"
    /\ last.args["agent"] = "reviewer"
    /\ last.args["model"] = "claude-opus"
    /\ reply.kind = "message"
    /\ disk = "missing"
    /\ ~inst

\* C18: get_agent returns the registry entry exactly when the id is a key
\* of the registry; otherwise it raises an error whose message holds the id
\* asked for and every key of the registry.  get_model does the same on the
\* model registry.
C18_LookupOrNamedError ==
    /\ last.op = "get_agent" =>
            IF \E i \in 1..Len(AgentKeys) : AgentKeys[i] = last.task_id
            THEN ~last.raised /\ last.ret = <<AgentsRegistry[last.task_id]>>
            ELSE /\ last.raised
                 /\ reply.kind = "ValueError"
                 /\ \E j \in 1..Len(reply.text) : reply.text[j] = last.task_id
                 /\ \A i \in 1..Len(AgentKeys) :
                        \E j \in 1..Len(reply.text) :
                            reply.text[j] = AgentKeys[i]
    /\ last.op = "get_model" =>
            IF \E i \in 1..Len(ModelKeys) : ModelKeys[i] = last.task_id
            THEN ~last.raised /\ last.ret = <<ModelsRegistry[last.task_id]>>
            ELSE /\ last.raised
                 /\ reply.kind = "ValueError"
                 /\ \E j \in 1..Len(reply.text) : reply.text[j] = last.task_id
                 /\ \A i \in 1..Len(ModelKeys) :
                        \E j \in 1..Len(reply.text) :
                            reply.text[j] = ModelKeys[i]

\* C18 witness: get_model failed on an id that an agent lists as supported
\* but the model registry does not hold.
C18_Witness ==
    /\ last.op = "get_model"
    /\ last.task_id = "legacy"
    /\ last.raised
    /\ reply.kind = "ValueError"

----------------------------------------------------------------------------
(* Properties of SpecAnnounce *)

\* C19: send_announcement never ends with an exception, whatever bot.start
\* and bot.send_message do; it returns True only when send_message returned
\* True before the timeout fired, and False after a timeout or a failure.
C19_AnnouncementReturnsBool ==
    /\ ann.main # "raised"
    /\ ann.main = "returned" =>
            (ann.result <=> (ann.send_task = "done" /\ ann.success))

----------------------------------------------------------------------------
(* Properties of SpecFifo *)

\* the number of the add_task call that added the task
JobNo(t) == CHOOSE n \in 1..Len(Jobs) : Jobs[n] = t["task"]

\* C21: the queue is first-in-first-out over queued tasks: whenever
\* get_next_queued_task returns, it returns a queued task, no queued task
\* of the document was added by an earlier add_task call than the one
\* returned, and it returns None only when no task is queued.  A task put
\* back to queued keeps its place ahead of the tasks added after it.
C21_Fifo ==
    last.op = "get_next_queued_task" =>
        /\ ~last.raised
        /\ IF \E i \in 1..Len(file) : file[i]["status"] = QUEUED
           THEN /\ Len(last.ret) = 1
                /\ last.ret[1]["status"] = QUEUED
                /\ \E i \in 1..Len(file) : file[i] = last.ret[1]
                /\ \A i \in 1..Len(file) :
                        file[i]["status"] = QUEUED =>
                            JobNo(last.ret[1]) <= JobNo(file[i])
           ELSE last.ret = <<>>

\* C21 witness: two queued jobs, the first of which an update has touched
\* before it was queued again; get_next_queued_task returned the first.
C21_Witness ==
    /\ last.op = "get_next_queued_task"
    /\ Len(file) = 2
    /\ file[1]["task"] = Jobs[1]
    /\ file[2]["task"] = Jobs[2]
    /\ file[1]["status"] = QUEUED
    /\ file[2]["status"] = QUEUED
    /\ file[1]["result"] = DTStr
    /\ last.ret = <<file[1]>>

----------------------------------------------------------------------------
(* Properties of SpecStatus *)

\* C22: after any sequence of add_task and update_task_status calls, with
\* any extra fields, the status of every task of the document is one of
\* queued, in_progress, completed, failed and cancelled.
C22_StatusIsMember ==
    \A i \in 1..Len(file) : file[i]["status"] \in TaskStatus

\* C22 witness: a call that passes status as an extra field failed on a
\* task that an earlier call had set to completed.
C22_Witness ==
    /\ last.op = "update_task_status"
    /\ last.raised
    /\ last.args = [status |-> NotAMember]
    /\ Len(file) >= 1
    /\ file[1]["id"] = last.task_id
    /\ file[1]["status"] = COMPLETED

====
